---- MODULE Spec2Model ----
(***************************************************************************)
(* Model of the ARGUS Algorand scanner pipeline (algorand_scanner):        *)
(* FileDiscovery.discover_files, AlgorandScanner.scan with its per-file    *)
(* tasks gated by an asyncio.Semaphore, the severity filter and the        *)
(* ScanResult count properties.                                            *)
(***************************************************************************)
EXTENDS Integers, Sequences, FiniteSets, TLC

(* ------------------------------ bounds -------------------------------- *)
\* number of files of the modelled file system
MaxFiles == 3
\* largest config.max_workers drawn by Init
MaxWorkers == 2
\* longest finding list drawn by the pure-function specifications
MaxLen == 3
\* longest target list drawn by the discovery specification
MaxTargets == 3

(* ------------------------- generic helpers ---------------------------- *)
Range(s) == {s[i] : i \in 1..Len(s)}

RECURSIVE Flatten(_)
Flatten(ss) == IF ss = <<>> THEN <<>> ELSE Head(ss) \o Flatten(Tail(ss))

\* every ordering of the finite set S (the iteration orders of a Python set)
Orderings(S) ==
    {o \in [1..Cardinality(S) -> S] : \A i, j \in 1..Cardinality(S) : i # j => o[i] # o[j]}

(* ----------------------------- models.py ------------------------------ *)
SeverityLevel == {"CRITICAL", "HIGH", "MEDIUM", "LOW", "INFO"}
FileType == {"python", "teal", "typescript", "javascript"}
\* _get_file_type returns None for an unmapped suffix
NoFileType == "none"

(* ----------------------------- file system ---------------------------- *)
\* Paths are numbered 1..MaxFiles in ascending Path order, so that Path's
\* "<" is "<" on the numbers.  All of them live under directory 1 ("a");
\* the even ones live in its subdirectory 2 ("a/b").
Paths == 1..MaxFiles
SuffixCycle == <<".py", ".teal", ".txt", ".ts", ".js">>
Suffix(p) == SuffixCycle[((p - 1) % Len(SuffixCycle)) + 1]
Directories == {1, 2}
Under(p, d) == IF d = 1 THEN TRUE ELSE p % 2 = 0
DirTarget(d) == [kind |-> "dir", id |-> d]
FileTarget(p) == [kind |-> "file", id |-> p]
MissingTarget == [kind |-> "missing", id |-> 0]

\* the values of args, source and document while they are not in use
NoArgs == [cli |-> "none", file |-> "none"]
NoSource == [suffix |-> "none"]
NoDocument == [kind |-> "unparsed"]
Untraced == [traced |-> FALSE, order |-> <<>>]

\* glob patterns are of the form "**/*<suffix>"
Pattern(sfx) == [suffix |-> sfx]
DefaultInclude == <<Pattern(".py"), Pattern(".teal"), Pattern(".ts"), Pattern(".tsx")>>
WideInclude == DefaultInclude \o <<Pattern(".txt"), Pattern(".js")>>

VARIABLES
    done_order,      \* scan: the indices of the tasks in the order they finished,
                     \*       for the scans whose completions are traced
    reparsed,        \* what a second Parser.parse call returned for the same content
    exit_code,       \* cli.main: the code passed to exit, once computed
    args,            \* cli.main: the command-line options and the loaded config file
    source,          \* the file handed to Parser.parse by the rule specification
    document,        \* what Parser.parse returned for source
    config,          \* ScanConfig: target_paths, include_patterns, exclude_patterns,
                     \*             analyzers, severity_threshold, max_workers
    available,       \* external analyzer -> tool availability probed in __init__
    phase,           \* position of AlgorandScanner.scan
    ti,              \* discover_files: index of the target being visited
    all_files,       \* discover_files: the set all_files
    files,           \* scan: the list returned by discover_files
    semaphore,       \* value of the asyncio.Semaphore
    task,            \* per index of files: the scan_file task
    errors,          \* scan: the list errors
    vulnerabilities, \* scan: the list vulnerabilities
    result,          \* the ScanResult (vulnerabilities, errors, files_scanned, tools_used)
    log              \* records written through logger.warning / logger.error

vars == <<done_order, reparsed, exit_code, args, source, document, config, available, phase, ti, all_files, files, semaphore, task,
          errors, vulnerabilities, result, log>>

(* --------------------- parsers/file_discovery.py ---------------------- *)
\* fnmatch.fnmatch(str(path), pattern) or fnmatch.fnmatch(path.name, pattern)
FnMatch(p, pat) == Suffix(p) = pat.suffix

\* directory.rglob(pattern), keeping the entries that are files
Rglob(d, pat) == {p \in Paths : Under(p, d) /\ Suffix(p) = pat.suffix}

\* _scan_directory: the patterns 1..done are walked completely; when done is
\* less than the number of patterns the walk of the next one raised and the
\* except clause returns what was collected so far
scan_directory(d, done) ==
    UNION {Rglob(d, config.include_patterns[k]) : k \in 1..done}

\* a mutant of _should_include_file: a file that matches an include pattern is
\* kept before the exclude patterns are looked at
should_include_file_include_first(p) ==
    \E k \in 1..Len(config.include_patterns) : FnMatch(p, config.include_patterns[k])

\* _should_include_file: the exclude patterns are checked first
should_include_file(p) ==
    IF \E k \in 1..Len(config.exclude_patterns) : FnMatch(p, config.exclude_patterns[k])
    THEN FALSE
    ELSE \E k \in 1..Len(config.include_patterns) : FnMatch(p, config.include_patterns[k])

RECURSIVE Insert(_, _)
Insert(x, s) ==
    IF s = <<>> THEN <<x>>
    ELSE IF x <= Head(s) THEN <<x>> \o s
    ELSE <<Head(s)>> \o Insert(x, Tail(s))

RECURSIVE InsertionSort(_)
InsertionSort(s) == IF s = <<>> THEN <<>> ELSE Insert(Head(s), InsertionSort(Tail(s)))

\* a mutant of sorted: the filtered list is returned as collected
sorted_missing(s) == s

\* sorted(filtered_files)
sorted(s) == InsertionSort(s)

LogEntry(level, site, id, who) == [level |-> level, site |-> site, id |-> id, who |-> who]

InitialTask ==
    [pc |-> "waiting", ai |-> 1, vulns |-> <<>>, ret |-> <<>>, exc |-> FALSE,
     raised |-> FALSE, kind |-> "unread", invoked |-> <<>>, failed |-> {},
     empty |-> {}]

\* discover_files, one iteration of "for target_path in self.config.target_paths"
DiscoverTarget ==
    /\ phase = "DISCOVER"
    /\ ti <= Len(config.target_paths)
    /\ LET t == config.target_paths[ti] IN
        \/ /\ t.kind = "file"
           /\ all_files' = all_files \cup {t.id}
           /\ log' = log
        \/ /\ t.kind = "dir"
           /\ \E done \in 0..Len(config.include_patterns) :
                /\ all_files' = all_files \cup scan_directory(t.id, done)
                /\ log' = IF done < Len(config.include_patterns)
                           THEN log \cup {LogEntry("error", "scan_directory", ti, "")}
                           ELSE log
        \/ /\ t.kind = "missing"
           /\ all_files' = all_files
           /\ log' = log \cup {LogEntry("warning", "discover_files", ti, "")}
    /\ ti' = ti + 1
    /\ UNCHANGED <<done_order, reparsed, exit_code, args, source, document, config, available, phase, files, semaphore, task, errors,
                   vulnerabilities, result>>

\* a mutant of scan: the tasks are created from the files found so far,
\* while targets are still to be walked
DiscoverFinish_streaming ==
    /\ phase = "DISCOVER"
    /\ ti <= Len(config.target_paths) + 1
    /\ \E order \in Orderings(all_files) :
         files' = sorted(SelectSeq(order, should_include_file))
    /\ semaphore' = config.max_workers
    /\ task' = [i \in 1..Len(files') |-> InitialTask]
    /\ phase' = "DISPATCH"
    /\ UNCHANGED <<done_order, reparsed, exit_code, args, source, document, config, available, ti, all_files, errors, vulnerabilities, result, log>>

\* discover_files, the filter loop and the return; then scan creates the
\* semaphore and the tasks (core.py lines 56-76)
DiscoverFinish ==
    /\ phase = "DISCOVER"
    /\ ti > Len(config.target_paths)
    /\ \E order \in Orderings(all_files) :
         files' = sorted(SelectSeq(order, should_include_file))
    /\ semaphore' = config.max_workers
    /\ task' = [i \in 1..Len(files') |-> InitialTask]
    /\ phase' = "DISPATCH"
    /\ UNCHANGED <<done_order, reparsed, exit_code, args, source, document, config, available, ti, all_files, errors, vulnerabilities, result, log>>

(* ------------------------------ parsers ------------------------------- *)
\* What the parser finds when it reads the file:
\*   algorand     decodable, well formed, with Algorand content
\*   plain        decodable, well formed, without Algorand content
\*   malformed    decodable, with Algorand content, but a Python syntax error
\*   undecodable  not UTF-8 (read_text raises UnicodeDecodeError)
\*   unreadable   read_text raises OSError
ContentKinds == {"algorand", "plain", "malformed", "undecodable", "unreadable"}
\* only Python source can be syntactically wrong for its parser: the TEAL and
\* TypeScript parsers work line by line and by regular expressions
ContentKindsOf(ft) == IF ft = "python" THEN ContentKinds ELSE ContentKinds \ {"malformed"}

\* the exception, if any, raised inside the try block of Parser.parse:
\* _read_file fails, or ast.parse raises SyntaxError
ParseException(ft, kind) == kind \in {"malformed", "undecodable", "unreadable"}

\* a mutant of Parser.parse: a document is returned for a file without
\* Algorand content too
parse_without_content_check(ft, kind) == ~ParseException(ft, kind)

\* Parser.parse: TRUE when a document is returned, FALSE when None is;
\* every exception of the try block is caught and turned into None
parse(ft, kind) ==
    IF ParseException(ft, kind) THEN FALSE
    ELSE kind = "algorand"

(* ----------------------------- analyzers ------------------------------ *)
\* insertion order of AlgorandScanner.analyzers
AnalyzerOrder == <<"builtin", "panda", "tealer", "quality-assurance">>
ExternalAnalyzers == {"panda", "tealer", "quality-assurance"}

\* AlgorandScanner.__init__: self.analyzers, in insertion order
Analyzers == SelectSeq(AnalyzerOrder, LAMBDA a : a \in config.analyzers)

\* a mutant of supports_file_type: the probed availability is not consulted
supports_file_type_unprobed(a, ft) ==
    CASE a = "builtin" -> TRUE
      [] a = "panda" -> ft = "python"
      [] a = "tealer" -> ft = "teal"
      [] a = "quality-assurance" -> ft \in {"python", "teal"}

\* supports_file_type of the four analyzers; available holds the flags that
\* the external analyzers set once in __init__
supports_file_type(a, ft) ==
    CASE a = "builtin" -> TRUE
      [] a = "panda" -> ft = "python" /\ available[a]
      [] a = "tealer" -> ft = "teal" /\ available[a]
      [] a = "quality-assurance" -> ft \in {"python", "teal"} /\ available[a]

SeverityCycle == <<"CRITICAL", "INFO", "HIGH", "LOW", "MEDIUM">>
SeverityAt(n) == SeverityCycle[(n % Len(SeverityCycle)) + 1]
Vulnerability(p, sev, tool, rule) ==
    [file |-> p, severity |-> sev, tool |-> tool, rule_id |-> rule]

\* the findings analyzer a returns for the document of path p when its
\* analyze call succeeds; a function of the file and the analyzer alone
Findings(a, p) ==
    CASE a = "builtin" -> <<Vulnerability(p, SeverityAt(p), a, 1),
                            Vulnerability(p, SeverityAt(p + 1), a, 2)>>
      [] a = "panda" -> <<Vulnerability(p, SeverityAt(p + 2), a, 1)>>
      [] a = "tealer" -> <<Vulnerability(p, SeverityAt(p + 3), a, 1)>>
      [] a = "quality-assurance" -> <<Vulnerability(p, SeverityAt(p + 4), a, 1)>>

\* how an analyze call can end.  BuiltinAnalyzer.analyze has no handler of
\* its own, so a rule that raises makes the call raise; the external
\* analyzers catch every exception of the tool run and return [] instead,
\* and return [] at once when their tool is not available
AnalyzeOutcomes(a) ==
    IF a = "builtin" THEN {"findings", "raise"}
    ELSE IF available[a] THEN {"findings", "empty"}
    ELSE {"empty"}

(* ------------------------------ core.py ------------------------------- *)
\* _get_file_type, from the lower-cased suffix on
FileTypeOfSuffix(sfx) ==
    CASE sfx = ".py" -> "python"
      [] sfx = ".teal" -> "teal"
      [] sfx \in {".ts", ".tsx"} -> "typescript"
      [] sfx \in {".js", ".jsx"} -> "javascript"
      [] OTHER -> NoFileType

\* _get_file_type of a path of the file system, whose suffixes are lower case
get_file_type(p) == FileTypeOfSuffix(Suffix(p))

SeverityOrder == <<"INFO", "LOW", "MEDIUM", "HIGH", "CRITICAL">>
\* list.index
Index(s, x) == CHOOSE i \in 1..Len(s) : s[i] = x /\ \A j \in 1..(i - 1) : s[j] # x

\* a mutant of _meets_severity_threshold: strict comparison
meets_severity_threshold_strict(severity) ==
    Index(SeverityOrder, severity) > Index(SeverityOrder, config.severity_threshold)

meets_severity_threshold(severity) ==
    Index(SeverityOrder, severity) >= Index(SeverityOrder, config.severity_threshold)

\* an entry of the list errors: where it was appended, and the path it names
ErrorEntry(site, p) == [site |-> site, file |-> p]

\* number of tasks inside "async with semaphore"
InFlight == Cardinality({i \in 1..Len(files) : task[i].pc \in {"parsing", "analyzing"}})

\* a mutant of the semaphore gate: the task enters without a free slot
semaphore_free_ungated == TRUE

\* asyncio.Semaphore.acquire proceeds only while the value is positive
semaphore_free == semaphore > 0

\* the completion of task i, appended to the trace of a traced scan
Finish(i) ==
    IF done_order.traced THEN [done_order EXCEPT !.order = Append(@, i)] ELSE done_order

\* _scan_single_file returns v: scan_file returns it and leaves the
\* "async with" block, releasing the semaphore
Return(i, t, v) ==
    /\ task' = [task EXCEPT ![i] = [t EXCEPT !.pc = "done", !.ret = v]]
    /\ errors' = errors
    /\ done_order' = Finish(i)

\* a mutant of the handler of scan_file: the message is recorded and the
\* exception raised again, so that gather hands it to the collection loop
on_exception_reraise(i, t) ==
    /\ task' = [task EXCEPT ![i] = [t EXCEPT !.pc = "done", !.ret = <<>>,
                                              !.exc = TRUE, !.raised = TRUE]]
    /\ errors' = Append(errors, ErrorEntry("scan_file", files[i]))
    /\ done_order' = Finish(i)

\* a mutant of the handler of scan_file: the exception is not contained, the
\* scan is torn down and the tasks that have not finished return nothing
on_exception_abort(i, t) ==
    /\ task' = [j \in 1..Len(files) |->
                  IF j = i THEN [t EXCEPT !.pc = "done", !.ret = <<>>, !.raised = TRUE]
                  ELSE IF task[j].pc = "done" THEN task[j]
                  ELSE [task[j] EXCEPT !.pc = "done", !.ret = <<>>]]
    /\ errors' = Append(errors, ErrorEntry("scan_file", files[i]))
    /\ done_order' = Finish(i)

\* scan_file, "except Exception": the exception of _scan_single_file is
\* recorded in errors and the task returns []
on_exception(i, t) ==
    /\ task' = [task EXCEPT ![i] = [t EXCEPT !.pc = "done", !.ret = <<>>,
                                              !.raised = TRUE]]
    /\ errors' = Append(errors, ErrorEntry("scan_file", files[i]))
    /\ done_order' = Finish(i)

\* the analyzer loop moves on to the next analyzer, or returns after the last
Continue(i, t) ==
    IF t.ai > Len(Analyzers)
    THEN Return(i, t, t.vulns)
    ELSE task' = [task EXCEPT ![i] = t] /\ errors' = errors /\ done_order' = done_order

\* a mutant of the handler around analyzer.analyze: the loop ends at the first
\* analyzer that raises and the findings collected so far are returned
on_analyzer_exception_break(i, t) == Return(i, t, t.vulns)

\* _scan_single_file, "except Exception" around analyzer.analyze: the error
\* is logged and the loop goes on with the next analyzer
on_analyzer_exception(i, t) == Continue(i, t)

\* scan_file up to the first suspension: the semaphore is acquired,
\* _get_file_type decides, and parser.parse starts reading the file
TaskStart(i) ==
    /\ phase = "DISPATCH"
    /\ task[i].pc = "waiting"
    /\ semaphore_free
    /\ IF get_file_type(files[i]) = NoFileType
       THEN /\ Return(i, task[i], <<>>)
            /\ log' = log \cup {LogEntry("warning", "scan_single_file", files[i], "")}
            /\ semaphore' = semaphore
       ELSE /\ task' = [task EXCEPT ![i].pc = "parsing"]
            /\ semaphore' = semaphore - 1
            /\ UNCHANGED <<done_order, errors, log>>
    /\ UNCHANGED <<reparsed, exit_code, args, source, document, config, available, phase, ti, all_files, files, vulnerabilities, result>>

\* parser.parse returns, or an exception leaves the call
ParseDone(i) ==
    /\ phase = "DISPATCH"
    /\ task[i].pc = "parsing"
    /\ \/ \E kind \in ContentKindsOf(get_file_type(files[i])) :
            LET ft == get_file_type(files[i])
                t == [task[i] EXCEPT !.kind = kind, !.pc = "analyzing"]
            IN  /\ log' = IF ParseException(ft, kind)
                           THEN log \cup {LogEntry("error", "parse", files[i], "")}
                           ELSE log
                /\ IF parse(ft, kind) THEN Continue(i, t) ELSE Return(i, t, <<>>)
       \/ /\ on_exception(i, [task[i] EXCEPT !.kind = "fault"])
          /\ log' = log \cup {LogEntry("error", "scan_file", files[i], "")}
    /\ semaphore' = semaphore + (IF task'[i].pc = "done" THEN 1 ELSE 0)
    /\ UNCHANGED <<reparsed, exit_code, args, source, document, config, available, phase, ti, all_files, files, vulnerabilities, result>>

\* a mutant of "vulnerabilities.extend(analyzer_results)": the results of
\* the analyzer replace what the earlier analyzers had found
extend_replacing(vs, rs) == rs

\* _scan_single_file, "vulnerabilities.extend(analyzer_results)"
extend(vs, rs) == vs \o rs

\* one iteration of "for analyzer_name, analyzer in self.analyzers.items()"
AnalyzerStep(i) ==
    /\ phase = "DISPATCH"
    /\ task[i].pc = "analyzing"
    /\ LET t == task[i]
           a == Analyzers[t.ai]
           ft == get_file_type(files[i])
           next == [t EXCEPT !.ai = t.ai + 1]
       IN  \/ /\ ~supports_file_type(a, ft)
              /\ Continue(i, next)
              /\ log' = log
           \/ /\ supports_file_type(a, ft)
              /\ \E out \in AnalyzeOutcomes(a) :
                   LET called == [next EXCEPT !.invoked = Append(t.invoked, a)] IN
                   CASE out = "findings" ->
                          /\ Continue(i, [called EXCEPT !.vulns = extend(t.vulns, Findings(a, files[i]))])
                          /\ log' = log
                     [] out = "empty" ->
                          /\ Continue(i, [called EXCEPT !.empty = t.empty \cup {a}])
                          /\ log' = log \cup {LogEntry("error", "tool", files[i], a)}
                     [] out = "raise" ->
                          /\ on_analyzer_exception(i, [called EXCEPT !.failed = t.failed \cup {a}])
                          /\ log' = log \cup {LogEntry("error", "analyzer", files[i], a)}
           \/ \* an exception leaves the supports_file_type call
              /\ on_exception(i, t)
              /\ log' = log \cup {LogEntry("error", "scan_file", files[i], "")}
    /\ semaphore' = semaphore + (IF task'[i].pc = "done" THEN 1 ELSE 0)
    /\ UNCHANGED <<reparsed, exit_code, args, source, document, config, available, phase, ti, all_files, files, vulnerabilities, result>>

\* a mutant of the collection of scan: the results are taken as the tasks
\* finish (asyncio.as_completed), not in the order of the task list
CollectVulnerabilities_as_completed ==
    Flatten([k \in 1..Len(done_order.order) |->
                IF task[done_order.order[k]].exc THEN <<>> ELSE task[done_order.order[k]].ret])

\* the results of asyncio.gather that are lists, concatenated in task order
CollectVulnerabilities ==
    Flatten([i \in 1..Len(files) |-> IF task[i].exc THEN <<>> ELSE task[i].ret])

\* the results of asyncio.gather that are exceptions, as error strings
CollectErrors ==
    LET raisedIdx == SelectSeq([i \in 1..Len(files) |-> i], LAMBDA i : task[i].exc)
    IN  [k \in 1..Len(raisedIdx) |-> ErrorEntry("gather", files[raisedIdx[k]])]

\* the filter of scan: [v for v in vulnerabilities if self._meets_severity_threshold(v.severity)]
filtered_vulnerabilities(vs) == SelectSeq(vs, LAMBDA v : meets_severity_threshold(v.severity))

ScanResult(n, vs, es, tools) ==
    [files_scanned |-> n, vulnerabilities |-> vs, errors |-> es, tools_used |-> tools]

\* a mutant of the wait of scan: it ends with the first task that finishes
gather_first_completed ==
    files = <<>> \/ \E i \in 1..Len(files) : task[i].pc = "done"

\* "await asyncio.gather(*tasks, return_exceptions=True)" returns when every
\* task has finished
gather == \A i \in 1..Len(files) : task[i].pc = "done"

\* asyncio.gather has returned: collect, filter, build the ScanResult
Aggregate ==
    /\ phase = "DISPATCH"
    /\ gather
    /\ vulnerabilities' = vulnerabilities \o CollectVulnerabilities
    /\ errors' = errors \o CollectErrors
    /\ result' = <<ScanResult(Len(files), filtered_vulnerabilities(vulnerabilities'),
                              errors', Analyzers)>>
    /\ phase' = "DONE"
    /\ UNCHANGED <<done_order, reparsed, exit_code, args, source, document, config, available, ti, all_files, files, semaphore, task, log>>

(* --------------------------- specification ---------------------------- *)
\* the target lists drawn for a whole scan: one root, and a missing root
\* followed by two overlapping roots
TargetChoices ==
    { <<DirTarget(1)>>,
      <<MissingTarget, DirTarget(2), DirTarget(1)>> }

\* the enabled analyzers and the availability of their tools: the default
\* analyzer list on a machine without the tools, and all four with the tools
AnalyzerSetups ==
    { [analyzers |-> {"builtin", "panda", "tealer"},
       available |-> [a \in ExternalAnalyzers |-> FALSE]],
      [analyzers |-> {"builtin", "panda", "tealer", "quality-assurance"},
       available |-> [a \in ExternalAnalyzers |-> TRUE]] }

Config(targets, incl, excl, ans, sev, workers) ==
    [target_paths |-> targets, include_patterns |-> incl, exclude_patterns |-> excl,
     analyzers |-> ans, severity_threshold |-> sev, max_workers |-> workers]

\* the state after AlgorandScanner.__init__, at the start of scan
Init ==
    /\ done_order = Untraced
    /\ reparsed = NoDocument
    /\ exit_code = <<>>
    /\ args = NoArgs
    /\ source = NoSource
    /\ document = NoDocument
    /\ \E targets \in TargetChoices, setup \in AnalyzerSetups,
          sev \in {"LOW"}, workers \in 0..MaxWorkers :
         /\ config = Config(targets, WideInclude, <<>>, setup.analyzers, sev, workers)
         /\ available = setup.available
    /\ phase = "DISCOVER"
    /\ ti = 1
    /\ all_files = {}
    /\ files = <<>>
    /\ semaphore = 0
    /\ task = <<>>
    /\ errors = <<>>
    /\ vulnerabilities = <<>>
    /\ result = <<>>
    /\ log = {}

Next ==
    \/ DiscoverTarget
    \/ DiscoverFinish
    \/ \E i \in 1..Len(files) : TaskStart(i)
    \/ \E i \in 1..Len(files) : ParseDone(i)
    \/ \E i \in 1..Len(files) : AnalyzerStep(i)
    \/ Aggregate

Spec == Init /\ [][Next]_vars

\* a scan of one directory with all four analyzers and their tools on a pool
\* of MaxWorkers workers, whose task completions are traced
InitOrder ==
    /\ done_order = [traced |-> TRUE, order |-> <<>>]
    /\ reparsed = NoDocument
    /\ exit_code = <<>>
    /\ args = NoArgs
    /\ source = NoSource
    /\ document = NoDocument
    /\ config = Config(<<DirTarget(1)>>, WideInclude, <<>>,
                       {"builtin", "panda", "tealer", "quality-assurance"}, "LOW", MaxWorkers)
    /\ available = [a \in ExternalAnalyzers |-> TRUE]
    /\ phase = "DISCOVER"
    /\ ti = 1
    /\ all_files = {}
    /\ files = <<>>
    /\ semaphore = 0
    /\ task = <<>>
    /\ errors = <<>>
    /\ vulnerabilities = <<>>
    /\ result = <<>>
    /\ log = {}

SpecOrder == InitOrder /\ [][Next]_vars

\* a scan of one directory for every pool size the configuration accepts:
\* --workers is type=int and ScanConfig.from_dict stores the value as given,
\* so 0 is a pool size of the program
InitWorkers ==
    /\ done_order = Untraced
    /\ reparsed = NoDocument
    /\ exit_code = <<>>
    /\ args = NoArgs
    /\ source = NoSource
    /\ document = NoDocument
    /\ \E workers \in 0..MaxWorkers :
         config = Config(<<DirTarget(1)>>, DefaultInclude, <<>>,
                         {"builtin", "panda", "tealer"}, "LOW", workers)
    /\ available = [a \in ExternalAnalyzers |-> FALSE]
    /\ phase = "DISCOVER"
    /\ ti = 1
    /\ all_files = {}
    /\ files = <<>>
    /\ semaphore = 0
    /\ task = <<>>
    /\ errors = <<>>
    /\ vulnerabilities = <<>>
    /\ result = <<>>
    /\ log = {}

\* the event loop runs every task that can take a step, and every parser
\* and analyzer call returns: a step that stays possible is taken
SpecWorkers == InitWorkers /\ [][Next]_vars /\ WF_vars(Next)

(* ------------------- ScanResult properties (models.py) ---------------- *)
total_vulnerabilities(r) == Len(r.vulnerabilities)
SeverityCount(r, sevs) ==
    Cardinality({k \in 1..Len(r.vulnerabilities) : r.vulnerabilities[k].severity \in sevs})
critical_count(r) == SeverityCount(r, {"CRITICAL"})
high_count(r) == SeverityCount(r, {"HIGH"})
medium_count(r) == SeverityCount(r, {"MEDIUM"})

\* a mutant of low_count: everything at or below LOW is counted
low_count_or_below(r) == SeverityCount(r, {"LOW", "INFO"})

low_count(r) == SeverityCount(r, {"LOW"})

(* --------- the filter and the counts as functions of their inputs ----- *)
\* finding lists of at most MaxLen findings, of every severity
FindingLists ==
    UNION {[1..n -> {Vulnerability(1, sev, "builtin", 1) : sev \in SeverityLevel}] : n \in 0..MaxLen}

\* scan at the point where gather has returned and the results are collected
InitReport ==
    /\ done_order = Untraced
    /\ reparsed = NoDocument
    /\ exit_code = <<>>
    /\ args = NoArgs
    /\ source = NoSource
    /\ document = NoDocument
    /\ \E sev \in SeverityLevel :
         config = Config(<<>>, DefaultInclude, <<>>, {"builtin"}, sev, 1)
    /\ available = [a \in ExternalAnalyzers |-> FALSE]
    /\ phase = "COLLECTED"
    /\ ti = 1
    /\ all_files = {}
    /\ files = <<>>
    /\ semaphore = 1
    /\ task = <<>>
    /\ errors = <<>>
    /\ vulnerabilities \in FindingLists
    /\ result = <<>>
    /\ log = {}

\* scan, from the filter to the returned ScanResult (core.py lines 86-104)
FilterReport ==
    /\ phase = "COLLECTED"
    /\ result' = <<ScanResult(Len(files), filtered_vulnerabilities(vulnerabilities),
                              errors, Analyzers)>>
    /\ phase' = "DONE"
    /\ UNCHANGED <<done_order, reparsed, exit_code, args, source, document, config, available, ti, all_files, files, semaphore, task, errors,
                   vulnerabilities, log>>

\* the holder of the ScanResult appends to its list vulnerabilities
ResultAppend ==
    /\ phase \in {"DONE", "HELD"}
    /\ Len(result[1].vulnerabilities) < MaxLen
    /\ \E sev \in SeverityLevel :
         result' = <<[result[1] EXCEPT !.vulnerabilities =
                         Append(@, Vulnerability(1, sev, "builtin", 1))]>>
    /\ phase' = "HELD"
    /\ UNCHANGED <<done_order, reparsed, exit_code, args, source, document, config, available, ti, all_files, files, semaphore, task, errors,
                   vulnerabilities, log>>

\* the holder of the ScanResult pops from its list vulnerabilities
ResultPop ==
    /\ phase \in {"DONE", "HELD"}
    /\ result[1].vulnerabilities # <<>>
    /\ result' = <<[result[1] EXCEPT !.vulnerabilities = SubSeq(@, 1, Len(@) - 1)]>>
    /\ phase' = "HELD"
    /\ UNCHANGED <<done_order, reparsed, exit_code, args, source, document, config, available, ti, all_files, files, semaphore, task, errors,
                   vulnerabilities, log>>

\* _get_exit_code (main.py lines 158-167): the first non-zero count among
\* critical, high and medium decides; severity_threshold is not read
get_exit_code(r, severity_threshold) ==
    IF critical_count(r) > 0 THEN 3
    ELSE IF high_count(r) > 0 THEN 2
    ELSE IF medium_count(r) > 0 THEN 1
    ELSE 0

\* main, after the report was written: exit(exit_code)
Exit ==
    /\ phase = "DONE"
    /\ exit_code' = <<get_exit_code(result[1], config.severity_threshold)>>
    /\ phase' = "EXITED"
    /\ UNCHANGED <<done_order, reparsed, args, source, document, config, available, ti, all_files, files,
                   semaphore, task, errors, vulnerabilities, result, log>>

NextReport == FilterReport \/ ResultAppend \/ ResultPop \/ Exit

SpecReport == InitReport /\ [][NextReport]_vars

(* ----------------- discovery as a function of the config -------------- *)
DiscoverTargets == {DirTarget(1), DirTarget(2), FileTarget(1), FileTarget(MaxFiles), MissingTarget}
\* every target list of at most MaxTargets targets
DiscoverTargetLists == UNION {[1..n -> DiscoverTargets] : n \in 0..MaxTargets}

InitDiscover ==
    /\ done_order = Untraced
    /\ reparsed = NoDocument
    /\ exit_code = <<>>
    /\ args = NoArgs
    /\ source = NoSource
    /\ document = NoDocument
    /\ \E targets \in DiscoverTargetLists,
          incl \in {DefaultInclude, WideInclude},
          excl \in {<<>>, <<Pattern(".teal")>>, <<Pattern(".py"), Pattern(".teal")>>} :
         config = Config(targets, incl, excl, {"builtin"}, "LOW", 1)
    /\ available = [a \in ExternalAnalyzers |-> FALSE]
    /\ phase = "DISCOVER"
    /\ ti = 1
    /\ all_files = {}
    /\ files = <<>>
    /\ semaphore = 0
    /\ task = <<>>
    /\ errors = <<>>
    /\ vulnerabilities = <<>>
    /\ result = <<>>
    /\ log = {}

NextDiscover == DiscoverTarget \/ DiscoverFinish

SpecDiscover == InitDiscover /\ [][NextDiscover]_vars

(* ------------- external tools that do not exit (analyzers) ------------ *)
\* seconds after which PandaAnalyzer gives up waiting for its subprocess
PandaTimeout == 30

\* the timeout each analyzer puts around process.communicate(): Panda wraps
\* it in asyncio.wait_for, Tealer and Quality-Assurance await it bare
NoTimeout == 0
tool_timeout(a) == IF a = "panda" THEN PandaTimeout ELSE NoTimeout

\* analyzer.analyze has started the tool for file i and awaits
\* process.communicate(); the tool never exits
ToolHangs(i) ==
    /\ phase = "DISPATCH"
    /\ task[i].pc = "analyzing"
    /\ Analyzers[task[i].ai] \in ExternalAnalyzers
    /\ supports_file_type(Analyzers[task[i].ai], get_file_type(files[i]))
    /\ task' = [task EXCEPT ![i].pc = "hung"]
    /\ UNCHANGED <<done_order, reparsed, exit_code, args, source, document, config, available, phase, ti, all_files, files,
                   semaphore, errors, vulnerabilities, result, log>>

\* the timeout around process.communicate() expires: asyncio.TimeoutError is
\* caught, the analyzer returns [] and the analyzer loop goes on
ToolTimeout(i) ==
    /\ phase = "DISPATCH"
    /\ task[i].pc = "hung"
    /\ tool_timeout(Analyzers[task[i].ai]) # NoTimeout
    /\ LET t == task[i]
           a == Analyzers[t.ai]
       IN  /\ Continue(i, [t EXCEPT !.pc = "analyzing", !.ai = t.ai + 1,
                                    !.invoked = Append(t.invoked, a),
                                    !.empty = t.empty \cup {a}])
           /\ log' = log \cup {LogEntry("error", "timeout", files[i], a)}
    /\ semaphore' = semaphore + (IF task'[i].pc = "done" THEN 1 ELSE 0)
    /\ UNCHANGED <<reparsed, exit_code, args, source, document, config, available, phase, ti, all_files, files,
                   vulnerabilities, result>>

\* a scan of a Python file and a TEAL file with all four analyzers and their
\* tools installed, on a pool of at least one worker
InitHang ==
    /\ done_order = Untraced
    /\ reparsed = NoDocument
    /\ exit_code = <<>>
    /\ args = NoArgs
    /\ source = NoSource
    /\ document = NoDocument
    /\ \E workers \in 1..MaxWorkers :
         config = Config(<<FileTarget(1), FileTarget(2)>>, DefaultInclude, <<>>,
                         {"builtin", "panda", "tealer", "quality-assurance"}, "LOW", workers)
    /\ available = [a \in ExternalAnalyzers |-> TRUE]
    /\ phase = "DISCOVER"
    /\ ti = 1
    /\ all_files = {}
    /\ files = <<>>
    /\ semaphore = 0
    /\ task = <<>>
    /\ errors = <<>>
    /\ vulnerabilities = <<>>
    /\ result = <<>>
    /\ log = {}

NextHang ==
    \/ Next
    \/ \E i \in 1..Len(files) : ToolHangs(i)
    \/ \E i \in 1..Len(files) : ToolTimeout(i)

\* the event loop runs every callback that is ready and fires every timer
\* that is armed: a step that stays possible is eventually taken
SpecHang == InitHang /\ [][NextHang]_vars /\ WF_vars(NextHang)

(* ------------- parsers and built-in rules on one file ----------------- *)
\* longest TEAL file, in lines
MaxTealLines == 6
\* most methods of a contract class, and longest method body, in lines
MaxMethods == 2
MaxBody == 2
\* longest TypeScript/JavaScript file, in lines
MaxTsLines == 3
\* longest TEAL file of state reads, in lines
MaxStateLines == 3

Min(a, b) == IF a < b THEN a ELSE b
Max(a, b) == IF a > b THEN a ELSE b
\* the indices of s whose element satisfies the test, ascending
Positions(s, kinds) == SelectSeq([i \in 1..Len(s) |-> i], LAMBDA i : s[i] \in kinds)

\* What a line of a TEAL file is:
\*   put      app_global_put            sender   txn Sender
\*   int      int 1                     comment  // note
TealLineKinds == {"put", "sender", "int", "comment"}
\* What a line of a TypeScript/JavaScript file is:
\*   key      const privateKey = "..."  random   const r = Math.random();
\*   algosdk  import algosdk from "algosdk";      other    console.log(1);
TsLineKinds == {"key", "random", "algosdk", "other"}
\* What a line of a method body is: a sender/creator check, or anything else
BodyLineKinds == {"check", "other"}

\* how reading the file ends: content, UnicodeDecodeError or OSError
IoKinds == {"ok", "undecodable", "unreadable"}

SeqsUpTo(S, n) == UNION {[1..k -> S] : k \in 0..n}

\* the TEAL files of at most n lines, and one that cannot be read or decoded
TealSources(n) ==
    {[suffix |-> ".teal", io |-> "ok", lines |-> ls] : ls \in SeqsUpTo(TealLineKinds, n)}
      \cup {[suffix |-> ".teal", io |-> io, lines |-> <<"put">>] : io \in IoKinds \ {"ok"}}

\* the TypeScript/JavaScript files of at most n lines
TsSources(n) ==
    {[suffix |-> sfx, io |-> "ok", lines |-> ls] :
        sfx \in {".ts", ".js", ".TS"}, ls \in SeqsUpTo(TsLineKinds, n)}
      \cup {[suffix |-> ".ts", io |-> io, lines |-> <<"algosdk", "key">>] : io \in IoKinds \ {"ok"}}

\* a method of the contract class: withdraw with or without @abimethod(), or
\* another external method, with a body of 1..nb lines
MethodHeads ==
    {[name |-> "withdraw", abi |-> TRUE], [name |-> "withdraw", abi |-> FALSE],
     [name |-> "get_balance", abi |-> TRUE]}
Methods(nb) ==
    {[name |-> h.name, abi |-> h.abi, body |-> b] :
        h \in MethodHeads, b \in SeqsUpTo(BodyLineKinds, nb) \ {<<>>}}

\* a Python file: a contract class with at most nm methods, a module without
\* Algorand content, an empty file, or text that is not Python
PySources(nm, nb) ==
    {[suffix |-> ".py", io |-> "ok", text |-> "contract", methods |-> ms] :
        ms \in SeqsUpTo(Methods(nb), nm)}
      \cup {[suffix |-> ".py", io |-> io, text |-> tx, methods |-> <<>>] :
              io \in IoKinds, tx \in {"plain", "empty", "malformed"}}

\* str.lower on the suffixes of the model
lower(sfx) == CASE sfx = ".TS" -> ".ts" [] OTHER -> sfx

\* the values of document
ParsedNone == [kind |-> "none"]
ParseRaised(exc) == [kind |-> "raised", exc |-> exc]

\* _read_file: file_path.read_text('utf-8')
read_file(src) ==
    CASE src.io = "ok" -> "content"
      [] src.io = "undecodable" -> "UnicodeDecodeError"
      [] src.io = "unreadable" -> "OSError"

\* the lines of a Python source: the import, the class line, and for each
\* method its decorator (if any), its def line and its body
MethodLines(mt) == (IF mt.abi THEN <<"decorator">> ELSE <<>>) \o <<"def">> \o mt.body
PyLines(src) ==
    CASE src.text = "contract" ->
           <<"import", "class">> \o Flatten([k \in 1..Len(src.methods) |-> MethodLines(src.methods[k])])
      [] src.text = "plain" -> <<"other">>
      [] OTHER -> <<>>

\* node.lineno of the FunctionDef of method k: the line of its def
DefLine(src, k) ==
    2 + Len(Flatten([j \in 1..(k - 1) |-> MethodLines(src.methods[j])]))
      + (IF src.methods[k].abi THEN 2 ELSE 1)

\* PythonParser._extract_class_methods
extract_class_methods(src) ==
    [k \in 1..Len(src.methods) |->
        [name |-> src.methods[k].name, line |-> DefLine(src, k),
         is_abi_method |-> src.methods[k].abi]]

\* the try block of PythonParser.parse
python_parse_try(src) ==
    IF read_file(src) # "content" THEN ParseRaised(read_file(src))
    ELSE IF src.text = "malformed" THEN ParseRaised("SyntaxError")
    ELSE IF src.text # "contract" THEN ParsedNone
    ELSE [kind |-> "document", lines |-> PyLines(src), methods |-> extract_class_methods(src)]

\* TealParser._is_teal_file: some line holds one of the TEAL indicators
is_teal_file(lines) ==
    \E i \in 1..Len(lines) : lines[i] \in {"put", "sender", "int", "get", "get_ex"}

\* The text of a TEAL line, as the words between its "_" and " " separators:
\*   get           app_global_get          get_ex        app_global_get_ex
\*   local_get     app_local_get           local_get_ex  app_local_get_ex
\*   put           app_global_put          sender        txn Sender
\*   int           int 1                   comment       // note
TealText(kind) ==
    CASE kind = "get" -> <<"app", "global", "get">>
      [] kind = "get_ex" -> <<"app", "global", "get", "ex">>
      [] kind = "local_get" -> <<"app", "local", "get">>
      [] kind = "local_get_ex" -> <<"app", "local", "get", "ex">>
      [] kind = "put" -> <<"app", "global", "put">>
      [] kind = "sender" -> <<"txn", "Sender">>
      [] kind = "int" -> <<"int", "1">>
      [] kind = "comment" -> <<"//", "note">>

\* the list state_opcodes of _extract_state_operations, in its order
state_opcodes ==
    << <<"app", "global", "get">>, <<"app", "global", "put">>, <<"app", "global", "del">>,
       <<"app", "global", "get", "ex">>,
       <<"app", "local", "get">>, <<"app", "local", "put">>, <<"app", "local", "del">>,
       <<"app", "local", "get", "ex">> >>

\* "opcode in line_lower": the opcode occurs somewhere in the text
Contains(text, opcode) ==
    \E k \in 0..(Len(text) - Len(opcode)) : SubSeq(text, k + 1, k + Len(opcode)) = opcode

\* _extract_state_operations, "if opcode in line_lower"
Matches(text, opcode) == Contains(text, opcode)

\* TealParser._extract_state_operations: for each line the first opcode of
\* state_opcodes found in it ("break" after the first hit)
extract_state_operations(lines) ==
    LET found(i) == {k \in 1..Len(state_opcodes) : Matches(TealText(lines[i]), state_opcodes[k])}
        first(i) == CHOOSE k \in found(i) : \A j \in found(i) : k <= j
        hits == SelectSeq([i \in 1..Len(lines) |-> i], LAMBDA i : found(i) # {})
    IN  [n \in 1..Len(hits) |->
            [operation |-> state_opcodes[first(hits[n])], line |-> hits[n]]]

\* the try block of TealParser.parse
teal_parse_try(src) ==
    IF read_file(src) # "content" THEN ParseRaised(read_file(src))
    ELSE IF ~is_teal_file(src.lines) THEN ParsedNone
    ELSE [kind |-> "document", lines |-> src.lines,
          state_operations |-> extract_state_operations(src.lines)]

\* TypeScriptParser._contains_algorand_code
contains_algorand_code(lines) ==
    \E i \in 1..Len(lines) : lines[i] \in {"algosdk", "pay", "call"}

\* TypeScriptParser._extract_security_patterns: the matches of one pattern
\* after the other, each pattern's matches in the order of the text
extract_security_patterns(lines) ==
    LET keys == Positions(lines, {"key"})
        rnds == Positions(lines, {"random"})
    IN  [k \in 1..Len(keys) |->
            [type |-> "hardcoded_private_key", line |-> keys[k], severity |-> "CRITICAL"]]
        \o [k \in 1..Len(rnds) |->
            [type |-> "unsafe_random", line |-> rnds[k], severity |-> "HIGH"]]

\* the try block of TypeScriptParser.parse
typescript_parse_try(src) ==
    IF read_file(src) # "content" THEN ParseRaised(read_file(src))
    ELSE IF ~contains_algorand_code(src.lines) THEN ParsedNone
    ELSE [kind |-> "document", lines |-> src.lines,
          security_issues |-> extract_security_patterns(src.lines)]

\* a mutant of the handlers of parse: only SyntaxError is caught
except_SyntaxError_only(out) ==
    IF out.kind = "raised" /\ out.exc = "SyntaxError" THEN ParsedNone ELSE out

\* the handlers of Parser.parse: "except Exception" logs and returns None
except_Exception(out) == IF out.kind = "raised" THEN ParsedNone ELSE out

\* self.parsers[file_type].parse(file_path)
parser_parse(src) ==
    LET ft == FileTypeOfSuffix(lower(src.suffix))
    IN  CASE ft = "python" -> except_Exception(python_parse_try(src))
          [] ft = "teal" -> except_Exception(teal_parse_try(src))
          [] ft \in {"typescript", "javascript"} -> except_Exception(typescript_parse_try(src))

\* BuiltinAnalyzer._create_vulnerability
RuleFinding(line, sev, rule) ==
    [file |-> 1, line |-> line, severity |-> sev, tool |-> "builtin", rule_id |-> rule]

\* the slice bounds of _check_missing_access_control_teal
TealContextStart == 5
TealContextEnd == 2

\* _check_missing_access_control_teal: lines[max(0, i-5):min(len(lines), i+2)]
\* for the line i (counted from 1) of each state write
check_missing_access_control_teal(lines) ==
    LET context(i) == (Max(0, i - TealContextStart) + 1)..Min(Len(lines), i + TealContextEnd)
        hits == SelectSeq([i \in 1..Len(lines) |-> i],
                          LAMBDA i : /\ lines[i] = "put"
                                     /\ ~\E j \in context(i) : lines[j] = "sender")
    IN  [k \in 1..Len(hits) |-> RuleFinding(hits[k], "HIGH", "teal_missing_access_control")]

\* _check_unsafe_state_operations_teal: a MEDIUM finding for every recorded
\* operation that is app_global_get or app_local_get
check_unsafe_state_operations_teal(state_operations) ==
    LET unsafe == SelectSeq(state_operations,
                            LAMBDA op : op.operation \in {<<"app", "global", "get">>,
                                                          <<"app", "local", "get">>})
    IN  [k \in 1..Len(unsafe) |-> RuleFinding(unsafe[k].line, "MEDIUM", "teal_unsafe_state_get")]

\* _analyze_teal: the access-control rule, then the state rule
analyze_teal(doc) ==
    check_missing_access_control_teal(doc.lines)
        \o check_unsafe_state_operations_teal(doc.state_operations)

\* the slice of _check_missing_access_control_python reaches this many lines
\* past the def line
PyMethodWindow == 10

\* the method names of the model that contain one of critical_functions
CriticalNames == {"withdraw"}

\* _check_missing_access_control_python: lines[method_line-1:method_line+10]
check_missing_access_control_python(doc) ==
    LET window(mt) == mt.line..Min(Len(doc.lines), mt.line + PyMethodWindow)
        has_access_control(mt) == \E j \in window(mt) : doc.lines[j] = "check"
        hits == SelectSeq(doc.methods,
                          LAMBDA mt : /\ mt.is_abi_method
                                      /\ mt.name \in CriticalNames
                                      /\ ~has_access_control(mt))
    IN  [k \in 1..Len(hits) |-> RuleFinding(hits[k].line, "CRITICAL", "py_missing_access_control")]

\* rule_id=f"ts_{issue['type']}"
TsRuleId ==
    [hardcoded_private_key |-> "ts_hardcoded_private_key", unsafe_random |-> "ts_unsafe_random"]

\* BuiltinAnalyzer._analyze_typescript: one finding per security issue
analyze_typescript(doc) ==
    [k \in 1..Len(doc.security_issues) |->
        RuleFinding(doc.security_issues[k].line, doc.security_issues[k].severity,
                    TsRuleId[doc.security_issues[k].type])]

\* BuiltinAnalyzer.analyze: the rule set is chosen by file_path.suffix as it
\* is written; of each rule set the rules above are modelled
builtin_analyze(sfx, doc) ==
    CASE sfx = ".py" -> check_missing_access_control_python(doc)
      [] sfx = ".teal" -> analyze_teal(doc)
      [] sfx \in {".ts", ".tsx", ".js", ".jsx"} -> analyze_typescript(doc)
      [] OTHER -> <<>>

\* _scan_single_file with the built-in analyzer alone, up to the return of
\* parser.parse
ParseSource ==
    /\ phase = "PARSE"
    /\ document' = parser_parse(source)
    /\ phase' = "PARSED"
    /\ UNCHANGED <<done_order, reparsed, exit_code, args, source, config, available, ti, all_files, files, semaphore, task,
                   errors, vulnerabilities, result, log>>

\* _scan_single_file from "if parsed_content is None" to its return
AnalyzeSource ==
    /\ phase = "PARSED"
    /\ document.kind # "raised"
    /\ vulnerabilities' = IF document.kind = "document"
                          THEN builtin_analyze(source.suffix, document)
                          ELSE <<>>
    /\ phase' = "ANALYZED"
    /\ UNCHANGED <<done_order, reparsed, exit_code, args, source, document, config, available, ti, all_files, files,
                   semaphore, task, errors, result, log>>

InitRules ==
    /\ done_order = Untraced
    /\ reparsed = NoDocument
    /\ exit_code = <<>>
    /\ args = NoArgs
    /\ source \in TealSources(MaxTealLines) \cup TsSources(MaxTsLines)
                    \cup PySources(MaxMethods, MaxBody)
    /\ document = NoDocument
    /\ config = Config(<<>>, DefaultInclude, <<>>, {"builtin"}, "INFO", 1)
    /\ available = [a \in ExternalAnalyzers |-> FALSE]
    /\ phase = "PARSE"
    /\ ti = 1
    /\ all_files = {}
    /\ files = <<>>
    /\ semaphore = 0
    /\ task = <<>>
    /\ errors = <<>>
    /\ vulnerabilities = <<>>
    /\ result = <<>>
    /\ log = {}

NextRules == ParseSource \/ AnalyzeSource

SpecRules == InitRules /\ [][NextRules]_vars

(* ------------------- TEAL files that read state ----------------------- *)
StateLineKinds == {"get", "get_ex", "local_get", "local_get_ex", "int"}

\* the TEAL files of at most n lines that read application state
StateSources(n) ==
    {[suffix |-> ".teal", io |-> "ok", lines |-> ls] : ls \in SeqsUpTo(StateLineKinds, n)}

InitState ==
    /\ done_order = Untraced
    /\ reparsed = NoDocument
    /\ exit_code = <<>>
    /\ args = NoArgs
    /\ source \in StateSources(MaxStateLines)
    /\ document = NoDocument
    /\ config = Config(<<>>, DefaultInclude, <<>>, {"builtin"}, "INFO", 1)
    /\ available = [a \in ExternalAnalyzers |-> FALSE]
    /\ phase = "PARSE"
    /\ ti = 1
    /\ all_files = {}
    /\ files = <<>>
    /\ semaphore = 0
    /\ task = <<>>
    /\ errors = <<>>
    /\ vulnerabilities = <<>>
    /\ result = <<>>
    /\ log = {}

SpecState == InitState /\ [][NextRules]_vars

(* ------------- two parse calls on the same content -------------------- *)
\* What a line of a TypeScript file with transaction calls is:
\*   pay      algosdk.makePaymentTxnWithSuggestedParamsFromObject({});
\*   call     algosdk.makeApplicationCallTxnFromObject({});
\*   algosdk  import algosdk from "algosdk";      other    console.log(1);
TxnLineKinds == {"pay", "call", "algosdk", "other"}

\* the members of the set ALGORAND_FUNCTIONS with "make" and "txn" in their
\* name that occur in the lines of the model
TxnFunctions == {"pay", "call"}

\* TypeScriptParser._extract_transaction_calls: "for func_name in
\* self.ALGORAND_FUNCTIONS" walks a Python set of strings, whose iteration
\* order is fixed by the hash seed of the process; order is that order
extract_transaction_calls(lines, order) ==
    Flatten([k \in 1..Len(order) |->
        LET at == Positions(lines, {order[k]})
        IN  [j \in 1..Len(at) |->
                [type |-> "transaction_creation", function |-> order[k], line |-> at[j]]]])

\* TypeScriptParser.parse in a process whose set order is order
typescript_parse(src, order) ==
    LET out == except_Exception(typescript_parse_try(src))
    IN  IF out.kind # "document" THEN out
        ELSE [kind |-> "document", lines |-> out.lines,
              transactions |-> extract_transaction_calls(src.lines, order),
              security_issues |-> out.security_issues]

\* a first scan parses the file
ParseFirst ==
    /\ phase = "PARSE"
    /\ \E order \in Orderings(TxnFunctions) : document' = typescript_parse(source, order)
    /\ phase' = "PARSED"
    /\ UNCHANGED <<done_order, reparsed, exit_code, args, source, config, available, ti, all_files, files,
                   semaphore, task, errors, vulnerabilities, result, log>>

\* a later scan, another process, parses the unchanged file
ParseSecond ==
    /\ phase = "PARSED"
    /\ \E order \in Orderings(TxnFunctions) : reparsed' = typescript_parse(source, order)
    /\ phase' = "REPARSED"
    /\ UNCHANGED <<done_order, exit_code, args, source, document, config, available, ti, all_files, files,
                   semaphore, task, errors, vulnerabilities, result, log>>

InitTwice ==
    /\ done_order = Untraced
    /\ reparsed = NoDocument
    /\ exit_code = <<>>
    /\ args = NoArgs
    /\ source \in {[suffix |-> ".ts", io |-> "ok", lines |-> ls] :
                      ls \in SeqsUpTo(TxnLineKinds, MaxTsLines)}
    /\ document = NoDocument
    /\ config = Config(<<>>, DefaultInclude, <<>>, {"builtin"}, "INFO", 1)
    /\ available = [a \in ExternalAnalyzers |-> FALSE]
    /\ phase = "PARSE"
    /\ ti = 1
    /\ all_files = {}
    /\ files = <<>>
    /\ semaphore = 0
    /\ task = <<>>
    /\ errors = <<>>
    /\ vulnerabilities = <<>>
    /\ result = <<>>
    /\ log = {}

NextTwice == ParseFirst \/ ParseSecond

SpecTwice == InitTwice /\ [][NextTwice]_vars

(* ------------------- cli/main.py: _load_configuration ----------------- *)
\* an option of the command line or a key of the config file: absent, or
\* given with a value
Absent == [given |-> FALSE]
Given(v) == [given |-> TRUE, val |-> v]

\* patterns such as "**/node_modules/**" name a directory; no path of the
\* modelled file system lies below one of them
DirPattern(d) == [suffix |-> "none", dir |-> d]

\* the defaults that click hands over for an option that was not given
ClickDefaultWorkers == 4
ClickDefaultTimeout == 300
ClickDefaults ==
    [severity |-> "LOW", format |-> "json", output |-> "None",
     workers |-> ClickDefaultWorkers, timeout |-> ClickDefaultTimeout]
\* what main receives for option name
ClickValue(cli, name) == IF cli[name].given THEN cli[name].val ELSE ClickDefaults[name]

\* config_data as _load_configuration first builds it (main.py lines 112-125)
DefaultConfigData(paths) ==
    [target_paths |-> IF paths # <<>> THEN paths ELSE <<DirTarget(1)>>,
     include_patterns |-> DefaultInclude,
     exclude_patterns |-> <<DirPattern("node_modules"), DirPattern(".git"), DirPattern("venv"),
                            DirPattern("__pycache__"), DirPattern("build"), DirPattern("dist")>>,
     analyzers |-> {"builtin"},
     severity_threshold |-> "LOW",
     output_format |-> "json",
     output_file |-> "None",
     max_workers |-> ClickDefaultWorkers,
     timeout |-> ClickDefaultTimeout]

ConfigKeys == DOMAIN DefaultConfigData(<<>>)

\* config_data.update(file_config): every key the file sets replaces the entry
UpdateFromFile(data, file) ==
    IF ~file.given THEN data
    ELSE [k \in ConfigKeys |-> IF file.val[k].given THEN file.val[k].val ELSE data[k]]

ConfigError == [error |-> "ValueError"]
NoConfig == [error |-> "unloaded"]

\* ScanConfig.from_dict: only the severity goes through a constructor that
\* can reject it
from_dict(data) ==
    IF data.severity_threshold \in SeverityLevel THEN data ELSE ConfigError

\* _load_configuration (main.py lines 105-149)
load_configuration(a) ==
    LET cli == a.cli
        d0 == DefaultConfigData(cli.paths)
        d1 == UpdateFromFile(d0, a.file)
        d2 == [d1 EXCEPT
                 !.analyzers = IF cli.analyzers # {} THEN cli.analyzers ELSE @,
                 !.include_patterns = IF cli.include # <<>> THEN @ \o cli.include ELSE @,
                 !.exclude_patterns = IF cli.exclude # <<>> THEN @ \o cli.exclude ELSE @]
    IN  from_dict([d2 EXCEPT
                 !.severity_threshold = ClickValue(cli, "severity"),
                 !.output_format = ClickValue(cli, "format"),
                 !.output_file = ClickValue(cli, "output"),
                 !.max_workers = ClickValue(cli, "workers"),
                 !.timeout = ClickValue(cli, "timeout")])

\* main, "scan_config = _load_configuration(...)": the ScanConfig, or the
\* exception that makes main exit before a scanner exists
LoadConfiguration ==
    /\ phase = "CLI"
    /\ config' = load_configuration(args)
    /\ phase' = IF config' = ConfigError THEN "REJECTED" ELSE "LOADED"
    /\ UNCHANGED <<done_order, reparsed, exit_code, args, source, document, available, ti, all_files, files, semaphore,
                   task, errors, vulnerabilities, result, log>>

\* _run_scan: AlgorandScanner(config) looks for the four identifiers it knows
\* and passes over everything else in config.analyzers; each external
\* analyzer that is constructed probes its tool; scan is about to call
\* discover_files
Construct ==
    /\ phase = "LOADED"
    /\ \E av \in [ExternalAnalyzers -> BOOLEAN] :
         /\ \A a \in ExternalAnalyzers : av[a] => a \in config.analyzers
         /\ available' = av
    /\ phase' = "DISCOVER"
    /\ UNCHANGED <<done_order, reparsed, exit_code, args, source, document, config, ti, all_files, files, semaphore,
                   task, errors, vulnerabilities, result, log>>

\* the command lines drawn: every option either absent or given
CliChoices ==
    [paths : {<<>>, <<DirTarget(2)>>},
     analyzers : {{}, {"tealer"}},
     include : {<<>>, <<Pattern(".js")>>},
     exclude : {<<>>, <<Pattern(".teal")>>},
     severity : {Absent, Given("HIGH")},
     format : {Absent, Given("sarif")},
     output : {Absent, Given("report.sarif")},
     workers : {Absent, Given(MaxWorkers)},
     timeout : {Absent}]

\* the config files drawn: every key either absent or set; "slither" names no
\* analyzer
FileChoices ==
    {Absent} \cup
    {Given(f) : f \in
       [target_paths : {Absent, Given(<<DirTarget(1)>>)},
        include_patterns : {Absent, Given(<<Pattern(".teal")>>)},
        exclude_patterns : {Absent},
        analyzers : {Absent, Given({"builtin", "panda"}), Given({"builtin", "slither"})},
        severity_threshold : {Absent, Given("CRITICAL")},
        output_format : {Absent},
        output_file : {Absent},
        max_workers : {Absent, Given(1)},
        timeout : {Absent, Given(60)}]}

InitConfig ==
    /\ done_order = Untraced
    /\ reparsed = NoDocument
    /\ exit_code = <<>>
    /\ args \in [cli : CliChoices, file : FileChoices]
    /\ source = NoSource
    /\ document = NoDocument
    /\ config = NoConfig
    /\ available = [a \in ExternalAnalyzers |-> FALSE]
    /\ phase = "CLI"
    /\ ti = 1
    /\ all_files = {}
    /\ files = <<>>
    /\ semaphore = 0
    /\ task = <<>>
    /\ errors = <<>>
    /\ vulnerabilities = <<>>
    /\ result = <<>>
    /\ log = {}

NextConfig == LoadConfiguration \/ Construct

SpecConfig == InitConfig /\ [][NextConfig]_vars

(* ------------------------------ properties ---------------------------- *)
Tasks == 1..Len(files)
Finished == phase = "DONE" /\ result # <<>>
Report == result[1]
Raised == {i \in Tasks : task[i].raised}

\* what the unit of work of file i returns when nothing raises out of it:
\* the findings of the analyzers that were called and returned findings,
\* in the order of self.analyzers
OwnFindings(i) ==
    LET good == SelectSeq(Analyzers, LAMBDA a : /\ a \in Range(task[i].invoked)
                                                 /\ a \notin task[i].failed
                                                 /\ a \notin task[i].empty)
    IN  Flatten([k \in 1..Len(good) |-> Findings(good[k], files[i])])

\* the unit of work of file i ran through to its end
Completed(i) ==
    /\ task[i].pc = "done"
    /\ \/ get_file_type(files[i]) = NoFileType
       \/ task[i].kind \in ContentKinds \ {"algorand"}
       \/ task[i].kind = "algorand" /\ task[i].ai > Len(Analyzers)

\* C1: at every moment the number of files inside _scan_single_file
\* (being parsed or analyzed) is at most config.max_workers
C1_BoundedParallelism == phase = "DISPATCH" => InFlight <= config.max_workers

\* C1 witness: the pool is full with two files in flight while a third waits
C1_Witness ==
    /\ phase = "DISPATCH"
    /\ config.max_workers = 2
    /\ InFlight = 2
    /\ \E i \in Tasks : task[i].pc = "waiting"

\* C2: when the unit of some file raises, every other file still runs to
\* completion and returns exactly its own findings, these findings all reach
\* the collected list, and the scan returns a report
C2_FaultIsolation ==
    (phase = "DONE" /\ Raised # {}) =>
        /\ result # <<>>
        /\ \A i \in Tasks \ Raised : Completed(i) /\ task[i].ret = OwnFindings(i)
        /\ vulnerabilities =
             Flatten([i \in Tasks |-> IF i \in Raised THEN <<>> ELSE OwnFindings(i)])

\* C2 witness: a scan has returned in which one file raised and another
\* file produced findings
C2_Witness ==
    /\ Finished
    /\ \E i, j \in Tasks : task[i].raised /\ ~task[j].raised /\ task[j].ret # <<>>

\* C3: each file whose unit raised adds exactly one error entry and no
\* finding, also when analyzers had returned findings for it before; the
\* collection loop records nothing more, so there are as many error entries
\* as files whose unit raised
C3_OneErrorPerRaisedFile ==
    phase = "DONE" =>
        /\ Len(Report.errors) = Cardinality(Raised)
        /\ \A i \in Raised :
             /\ Cardinality({k \in 1..Len(Report.errors) : Report.errors[k].file = files[i]}) = 1
             /\ \A k \in 1..Len(vulnerabilities) : vulnerabilities[k].file # files[i]

\* C3 witness: a scan has returned in which a file raised after an analyzer
\* had returned findings for it
C3_Witness ==
    /\ Finished
    /\ \E i \in Tasks : task[i].raised /\ task[i].vulns # <<>>

\* C4: when an analyze call raises for a file, every other enabled analyzer
\* that supports the format is still called on it and the findings of those
\* that did not raise are all in the result of the file
C4_AnalyzerIsolation ==
    \A i \in Tasks :
        (task[i].pc = "done" /\ ~task[i].raised /\ task[i].failed # {}) =>
            /\ \A k \in 1..Len(Analyzers) :
                 supports_file_type(Analyzers[k], get_file_type(files[i]))
                     => Analyzers[k] \in Range(task[i].invoked)
            /\ task[i].ret = OwnFindings(i)

\* C4 witness: a file is done, one analyzer raised for it and another one,
\* called after it, contributed findings
C4_Witness ==
    \E i \in Tasks :
        /\ task[i].pc = "done" /\ ~task[i].raised
        /\ task[i].failed # {}
        /\ task[i].ret # <<>>

\* C5: each exception raised by an analyze call is recorded as exactly one
\* error string in the errors of the returned ScanResult
C5_AnalyzerErrorRecorded ==
    phase = "DONE" =>
        \A i \in Tasks \ Raised : \A a \in task[i].failed :
            Cardinality({k \in 1..Len(Report.errors) :
                            Report.errors[k].file = files[i]}) = 1

\* C6: a file of a recognized format that cannot be parsed yields no
\* findings and has an entry in the errors of the returned ScanResult
C6_ParseErrorRecorded ==
    phase = "DONE" =>
        \A i \in Tasks :
            (get_file_type(files[i]) # NoFileType
                /\ task[i].kind \in {"malformed", "undecodable", "unreadable"}) =>
                /\ task[i].ret = <<>>
                /\ \E k \in 1..Len(Report.errors) : Report.errors[k].file = files[i]

\* C7: a target root that does not exist or cannot be walked leaves the scan
\* running and appears as an error string in the errors of the ScanResult
C7_DiscoveryErrorRecorded ==
    phase = "DONE" =>
        \A t \in 1..Len(config.target_paths) :
            (\E e \in log : e.site \in {"discover_files", "scan_directory"} /\ e.id = t) =>
                \E k \in 1..Len(Report.errors) : Report.errors[k].site = "discovery"

\* the total order of the severity levels
Rank == [sev \in SeverityLevel |->
            CASE sev = "INFO" -> 0 [] sev = "LOW" -> 1 [] sev = "MEDIUM" -> 2
              [] sev = "HIGH" -> 3 [] sev = "CRITICAL" -> 4]
Occurrences(s, v) == Cardinality({k \in 1..Len(s) : s[k] = v})

\* C8: the findings of the returned ScanResult are exactly the collected
\* findings whose severity is at or above the threshold, each as often as it
\* was collected
C8_SeverityFilter ==
    phase = "DONE" =>
        \A v \in Range(vulnerabilities) \cup Range(Report.vulnerabilities) :
            Occurrences(Report.vulnerabilities, v) =
                IF Rank[v.severity] >= Rank[config.severity_threshold]
                THEN Occurrences(vulnerabilities, v) ELSE 0

\* C8 witness: a report was built from a list holding a finding exactly at
\* the threshold twice and a finding below the threshold
C8_Witness ==
    /\ phase = "DONE"
    /\ \E v \in Range(vulnerabilities) :
         v.severity = config.severity_threshold /\ Occurrences(vulnerabilities, v) = 2
    /\ \E v \in Range(vulnerabilities) : Rank[v.severity] < Rank[config.severity_threshold]

InfoCount(r) == SeverityCount(r, {"INFO"})
NamedCounts(r) == critical_count(r) + high_count(r) + medium_count(r) + low_count(r)

\* C9: whenever the counts of a ScanResult are read, also after its list was
\* changed, the four named counts plus the number of INFO findings equal
\* total_vulnerabilities; the named counts sum to at most the total, and to
\* the total exactly when the list holds no INFO finding
C9_CountsAddUp ==
    result # <<>> =>
        /\ NamedCounts(Report) + InfoCount(Report) = total_vulnerabilities(Report)
        /\ NamedCounts(Report) <= total_vulnerabilities(Report)
        /\ (NamedCounts(Report) = total_vulnerabilities(Report)) <=> (InfoCount(Report) = 0)

\* C9 witness: a ScanResult whose list was changed after construction and
\* holds an INFO finding, a LOW finding and a third finding
C9_Witness ==
    /\ phase = "HELD"
    /\ InfoCount(Report) > 0
    /\ low_count(Report) > 0
    /\ total_vulnerabilities(Report) > 2

\* C10: discover_files returns a list in ascending path order that holds no
\* path twice
C10_SortedNoDuplicates ==
    phase = "DISPATCH" =>
        \A k \in 1..(Len(files) - 1) : files[k] < files[k + 1]

\* C10 witness: discovery has returned several files for a target list that
\* names a directory twice, or a directory and a file below it
C10_Witness ==
    /\ phase = "DISPATCH"
    /\ Len(files) >= 2
    /\ \E a, b \in 1..Len(config.target_paths) :
         /\ a # b
         /\ config.target_paths[a].kind = "dir"
         /\ \/ config.target_paths[b] = config.target_paths[a]
            \/ /\ config.target_paths[b].kind = "file"
               /\ config.target_paths[b].id \in Range(files)

\* the exclude patterns that path p matches
Excluding(p) ==
    {k \in 1..Len(config.exclude_patterns) : FnMatch(p, config.exclude_patterns[k])}

\* C11: no file that matches an exclude pattern is in the list returned by
\* discover_files, whether it was walked or named as a target and whether or
\* not it matches an include pattern
C11_ExcludeWins ==
    phase = "DISPATCH" => \A k \in 1..Len(files) : Excluding(files[k]) = {}

\* C11 witness: discovery has returned files although a file named as a
\* target and a file found by walking both match an include pattern and an
\* exclude pattern
C11_Witness ==
    /\ phase = "DISPATCH"
    /\ files # <<>>
    /\ \E t \in Range(config.target_paths) :
         /\ t.kind = "file"
         /\ Excluding(t.id) # {}
         /\ \E k \in 1..Len(config.include_patterns) : FnMatch(t.id, config.include_patterns[k])
    /\ \E t \in Range(config.target_paths), p \in all_files :
         /\ t.kind = "dir" /\ Under(p, t.id)
         /\ Excluding(p) # {}
         /\ p \notin {u.id : u \in {v \in Range(config.target_paths) : v.kind = "file"}}

\* the analyzers whose analyze was invoked on at least one file
Ran == UNION {Range(task[i].invoked) : i \in Tasks}

\* C12: tools_used of the returned ScanResult holds exactly the analyzers
\* whose analyze was invoked on at least one file of the scan
C12_ToolsUsedRan ==
    phase = "DONE" => Range(Report.tools_used) = Ran

\* C13: a configuration whose analyzer list holds an identifier outside the
\* closed set is rejected before the scan starts: neither from_dict nor the
\* construction of the scanner succeeds for it
C13_UnknownAnalyzerRejected ==
    phase \in {"LOADED", "DISCOVER"} => config.analyzers \subseteq Range(AnalyzerOrder)

\* the value the precedence rule gives key k: the command-line value when
\* one was given, otherwise the value of the config file when it sets the key,
\* otherwise the built-in default
CliOption ==
    [target_paths |-> IF args.cli.paths # <<>> THEN Given(args.cli.paths) ELSE Absent,
     include_patterns |-> IF args.cli.include # <<>> THEN Given(args.cli.include) ELSE Absent,
     exclude_patterns |-> IF args.cli.exclude # <<>> THEN Given(args.cli.exclude) ELSE Absent,
     analyzers |-> IF args.cli.analyzers # {} THEN Given(args.cli.analyzers) ELSE Absent,
     severity_threshold |-> args.cli.severity,
     output_format |-> args.cli.format,
     output_file |-> args.cli.output,
     max_workers |-> args.cli.workers,
     timeout |-> args.cli.timeout]
Precedence(k) ==
    IF CliOption[k].given THEN CliOption[k].val
    ELSE IF args.file.given /\ args.file.val[k].given THEN args.file.val[k].val
    ELSE DefaultConfigData(<<>>)[k]

\* C20: every key of the ScanConfig built by _load_configuration holds the
\* command-line value when one was given, otherwise the config-file value
\* when the file sets the key, otherwise the built-in default
C20_Precedence ==
    phase = "LOADED" => \A k \in ConfigKeys : config[k] = Precedence(k)

\* the enabled external analyzers whose tool was not found at construction
Unavailable == {a \in Range(Analyzers) \cap ExternalAnalyzers : ~available[a]}

C15_HungToolGivenUp ==
    (\E i \in Tasks : task[i].pc = "hung") ~> (phase = "DONE" /\ semaphore = config.max_workers)

\* C16: for each of the three parsers and every content, valid, malformed,
\* empty or undecodable, and also when the file cannot be read, parse returns
\* a document or None and no exception leaves it
C16_ParserTotal ==
    phase \in {"PARSED", "ANALYZED"} =>
        /\ document.kind \in {"document", "none"}
        /\ (source.io # "ok" => document = ParsedNone)
        /\ (source.suffix = ".py" /\ source.text \in {"malformed", "empty"} => document = ParsedNone)

\* C16 witness: parse has returned None for a TypeScript file that is not
\* valid UTF-8
C16_Witness ==
    /\ phase = "PARSED"
    /\ source.suffix = ".ts"
    /\ source.io = "undecodable"
    /\ document = ParsedNone

\* the findings of the analyzed file with the given rule and severity
FindingLines(rule, sev) ==
    {vulnerabilities[k].line : k \in {j \in 1..Len(vulnerabilities) :
        vulnerabilities[j].rule_id = rule /\ vulnerabilities[j].severity = sev}}

\* C17: for every TEAL file and every line n with a state write, a HIGH
\* teal_missing_access_control finding is emitted at n exactly when none of
\* the 5 lines before n holds a sender check
C17_TealFiveLineWindow ==
    (phase = "ANALYZED" /\ source.suffix = ".teal" /\ document.kind = "document") =>
        \A n \in 1..Len(source.lines) :
            source.lines[n] = "put" =>
                (n \in FindingLines("teal_missing_access_control", "HIGH")
                   <=> ~\E j \in Max(1, n - 5)..(n - 1) : source.lines[j] = "sender")

\* C18: every abimethod named withdraw whose own body holds no sender or
\* creator check yields a CRITICAL py_missing_access_control finding at its
\* line, whatever follows the method
C18_WithdrawWithoutCheck ==
    (phase = "ANALYZED" /\ source.suffix = ".py" /\ document.kind = "document") =>
        \A k \in 1..Len(source.methods) :
            (/\ source.methods[k].name = "withdraw"
             /\ source.methods[k].abi
             /\ "check" \notin Range(source.methods[k].body))
                => DefLine(source, k) \in FindingLines("py_missing_access_control", "CRITICAL")

\* C19: for every TypeScript/JavaScript file that is scanned, each private
\* key literal has a CRITICAL finding and each Math.random() call a HIGH
\* finding, also when both are in the same file
C19_TsKeyAndRandom ==
    (/\ phase = "ANALYZED"
     /\ FileTypeOfSuffix(lower(source.suffix)) \in {"typescript", "javascript"}
     /\ source.io = "ok") =>
        \A n \in 1..Len(source.lines) :
            /\ source.lines[n] = "key" =>
                 n \in FindingLines("ts_hardcoded_private_key", "CRITICAL")
            /\ source.lines[n] = "random" =>
                 n \in FindingLines("ts_unsafe_random", "HIGH")

\* the highest severity among the findings of the report, as a rank
Highest(r) ==
    CHOOSE h \in 0..4 :
        /\ \A k \in 1..Len(r.vulnerabilities) : Rank[r.vulnerabilities[k].severity] <= h
        /\ h > 0 => \E k \in 1..Len(r.vulnerabilities) : Rank[r.vulnerabilities[k].severity] = h

\* C21: the exit code is 0 when the report holds nothing at or above the
\* threshold, and when it holds a finding above the threshold the code is
\* nonzero and ordered by the highest severity present: 1 for MEDIUM, 2 for
\* HIGH, 3 for CRITICAL
C21_ExitCodeTiers ==
    phase = "EXITED" =>
        /\ (\A k \in 1..Len(Report.vulnerabilities) :
                Rank[Report.vulnerabilities[k].severity] < Rank[config.severity_threshold])
             => exit_code[1] = 0
        /\ (\E k \in 1..Len(Report.vulnerabilities) :
                Rank[Report.vulnerabilities[k].severity] > Rank[config.severity_threshold])
             => /\ exit_code[1] # 0
                /\ Highest(Report) >= 2 => exit_code[1] = Highest(Report) - 1

\* C22: two parse calls on the same content return the same document, the
\* order of every extracted list included
C22_ParseDeterministic ==
    phase = "REPARSED" => reparsed = document

\* C23: the aggregate finding list is not touched and no ScanResult exists
\* until every file task has finished; the ScanResult is built once, from
\* the lists as the tasks left them, and nothing is appended to the finding
\* or error list afterwards
C23_AggregateOnceAfterTasks ==
    /\ Len(result) <= 1
    /\ (vulnerabilities # <<>> \/ result # <<>>) =>
           \A i \in Tasks : task[i].pc = "done"
    /\ phase = "DISPATCH" => (vulnerabilities = <<>> /\ result = <<>>)
    /\ phase = "DONE" =>
           /\ Len(result) = 1
           /\ vulnerabilities = CollectVulnerabilities
           /\ result[1].vulnerabilities = filtered_vulnerabilities(vulnerabilities)
           /\ result[1].errors = errors
           /\ Len(errors) = Cardinality(Raised)

\* C23 witness: a scan of several files has returned a ScanResult with
\* findings and errors, and its tasks had run side by side
C23_Witness ==
    /\ phase = "DONE"
    /\ Len(files) >= 2
    /\ config.max_workers >= 2
    /\ result[1].vulnerabilities # <<>>
    /\ result[1].errors # <<>>

\* the place of a phase in the order DISCOVER, DISPATCH, AGGREGATE; the
\* aggregation of scan is one step, at whose end the scan has returned
PhaseRank == [p \in {"DISCOVER", "DISPATCH", "DONE"} |->
                 CASE p = "DISCOVER" -> 1 [] p = "DISPATCH" -> 2 [] p = "DONE" -> 3]

\* C24: a scan goes through discovery, dispatch and aggregation in this
\* order and never back: no task exists and nothing is parsed or analyzed
\* before discover_files has returned the whole file list, the file list does
\* not change afterwards, and the filter runs only when no task is running
C24_PhaseOrder ==
    [][ /\ PhaseRank[phase'] >= PhaseRank[phase]
        /\ PhaseRank[phase'] <= PhaseRank[phase] + 1
        /\ phase = "DISCOVER" =>
               /\ task = <<>> /\ files = <<>> /\ result = <<>>
               /\ \A e \in log : e.site \in {"scan_directory", "discover_files"}
        /\ phase # "DISCOVER" =>
               /\ ti > Len(config.target_paths)
               /\ files' = files /\ Len(task') = Len(files)
        /\ task' # task => (phase = "DISPATCH" \/ phase' = "DISPATCH")
        /\ result' # result =>
               /\ phase = "DISPATCH" /\ phase' = "DONE"
               /\ InFlight = 0
               /\ \A i \in Tasks : task[i].pc = "done"
      ]_vars

\* C24 witness: a scan of several files has gone through the three phases
\* and returned
C24_Witness ==
    /\ phase = "DONE"
    /\ Len(files) >= 2
    /\ \E i \in Tasks : task[i].invoked # <<>>

\* the files the scan skips: the suffix maps to no supported format, or the
\* parser was called and returned None
Skipped ==
    {i \in Tasks :
        /\ task[i].pc = "done"
        /\ \/ get_file_type(files[i]) = NoFileType
           \/ task[i].kind \in ContentKinds \ {"algorand"}}

\* C25: a file of no supported format, or for which the parser returns None,
\* is skipped: no analyzer is invoked on it, it contributes no finding and
\* no entry of the error list names it
C25_SkippedFileSilent ==
    \A i \in Skipped :
        /\ task[i].invoked = <<>> /\ task[i].failed = {} /\ task[i].empty = {}
        /\ task[i].ret = <<>> /\ task[i].vulns = <<>>
        /\ ~task[i].raised /\ ~task[i].exc
        /\ \A k \in 1..Len(errors) : errors[k].file # files[i]
        /\ phase = "DONE" =>
               /\ \A k \in 1..Len(vulnerabilities) : vulnerabilities[k].file # files[i]
               /\ \A k \in 1..Len(Report.errors) : Report.errors[k].file # files[i]

\* C25 witness: a scan has returned in which a file of an unsupported format
\* and a file without Algorand content were skipped, next to a file with
\* findings
C25_Witness ==
    /\ phase = "DONE"
    /\ \E i \in Skipped : get_file_type(files[i]) = NoFileType
    /\ \E i \in Skipped : task[i].kind = "plain"
    /\ Report.vulnerabilities # <<>>

\* the findings of file i in the aggregate list of the scan
FindingsOfFile(i) == SelectSeq(vulnerabilities, LAMBDA v : v.file = files[i])

\* C26: on a parsed file whose unit of work ran to its end, analyze is called
\* exactly once on each enabled analyzer that supports the format and on no
\* other, and the findings of the file are the findings these calls
\* returned, one after the other, nothing removed, replaced or merged
C26_EverySupportingAnalyzerOnce ==
    \A i \in Tasks :
        (task[i].pc = "done" /\ task[i].kind = "algorand" /\ ~task[i].raised) =>
            /\ task[i].invoked =
                  SelectSeq(Analyzers,
                            LAMBDA a : supports_file_type(a, get_file_type(files[i])))
            /\ task[i].ret = OwnFindings(i)
            /\ Len(task[i].ret) =
                  Len(Flatten([k \in 1..Len(task[i].invoked) |->
                         IF task[i].invoked[k] \in task[i].failed \cup task[i].empty
                         THEN <<>> ELSE Findings(task[i].invoked[k], files[i])]))
            /\ phase = "DONE" => FindingsOfFile(i) = task[i].ret

\* C26 witness: a scan has returned in which three analyzers were called on
\* one file and each of them contributed findings
C26_Witness ==
    /\ phase = "DONE"
    /\ \E i \in Tasks :
         /\ ~task[i].raised
         /\ Len(task[i].invoked) >= 3
         /\ task[i].failed = {} /\ task[i].empty = {}
         /\ Cardinality({FindingsOfFile(i)[k].tool : k \in 1..Len(FindingsOfFile(i))}) >= 3

\* C27: whatever the order in which the tasks finish, the findings of the
\* returned ScanResult are grouped by file in the sorted order of the file
\* list and follow, within a file, the order builtin, panda, tealer,
\* quality-assurance: the list is the one a scan of one file after the other
\* would return
C27_FindingOrderFixed ==
    phase = "DONE" =>
        /\ \A i, j \in Tasks : i < j => files[i] < files[j]
        /\ vulnerabilities =
              Flatten([i \in 1..Len(files) |->
                          IF task[i].raised THEN <<>> ELSE OwnFindings(i)])
        /\ Report.vulnerabilities = filtered_vulnerabilities(vulnerabilities)
        /\ \A k, l \in 1..Len(Report.vulnerabilities) :
              k < l =>
                LET v == Report.vulnerabilities[k]
                    w == Report.vulnerabilities[l]
                IN  \/ v.file < w.file
                    \/ /\ v.file = w.file
                       /\ Index(AnalyzerOrder, v.tool) <= Index(AnalyzerOrder, w.tool)

\* C27 witness: a scan has returned in which a later file of the list
\* finished before an earlier one, and both have findings in the result
C27_Witness ==
    /\ phase = "DONE"
    /\ \E a, b \in 1..Len(done_order.order) :
         /\ a < b
         /\ done_order.order[a] > done_order.order[b]
         /\ \E k \in 1..Len(Report.vulnerabilities) :
                Report.vulnerabilities[k].file = files[done_order.order[a]]
         /\ \E k \in 1..Len(Report.vulnerabilities) :
                Report.vulnerabilities[k].file = files[done_order.order[b]]

\* C28: for every pool size the configuration accepts and every non-empty
\* file list, the scan returns a ScanResult in which every file has been
\* processed and every slot of the semaphore has been given back
C28_ScanReturns ==
    (phase = "DISPATCH" /\ files # <<>>) ~>
        /\ phase = "DONE"
        /\ \A i \in Tasks : task[i].pc = "done"
        /\ semaphore = config.max_workers

\* C29: when _get_file_type gives a file a format, in whatever letter case
\* its suffix is written, and the file is parsed, the built-in analyzer
\* applies the rules of that format to it
C29_SuffixCaseAgreement ==
    (phase = "ANALYZED" /\ document.kind = "document"
        /\ FileTypeOfSuffix(lower(source.suffix)) # NoFileType) =>
            vulnerabilities = builtin_analyze(lower(source.suffix), document)

\* C30: a teal_unsafe_state_get finding is emitted at a line only if the
\* line is the unchecked read app_global_get or app_local_get; a line with
\* app_global_get_ex or app_local_get_ex never yields it
C30_CheckedReadNotFlagged ==
    (phase = "ANALYZED" /\ source.suffix = ".teal" /\ document.kind = "document") =>
        \A k \in 1..Len(vulnerabilities) :
            vulnerabilities[k].rule_id = "teal_unsafe_state_get" =>
                source.lines[vulnerabilities[k].line] \in {"get", "local_get"}

====
